---- MODULE Spec2Model ----
(***************************************************************************)
(* Model of src/src/handlers.ts: the WebSocket chat Lambda.  One inbound   *)
(* event is one invocation of `handle`; every `await` of the code is a     *)
(* separate step, so invocations interleave at the awaits.  The Clients    *)
(* and Messages tables and the API Gateway connections are the shared      *)
(* state.                                                                  *)
(***************************************************************************)
EXTENDS Integers, Sequences, FiniteSets, TLC

\* ------------------------------------------------------------------ bounds
MaxConn == 3
MaxHandlers == 2
MaxMessages == 1
\* The connections that arrive in the specification of late events.
LateConn == 2

ConnIds == 1..MaxConn
Handlers == 1..MaxHandlers

\* ------------------------------------------------------------- vocabulary
\* A nickname is a string, modelled as the sequence of its character codes.
HashChar == 35
Nicknames == {<<97>>, <<98>>, <<97, 35, 98>>}
\* queryStringParameters["nickname"] absent or empty: falsy at line 101.
NoNickname == << >>
\* An absent row of the Clients table.
NoRow == << >>
\* `undefined` returned by getConnectionIdByNickname.
Undefined == 0
Texts == {<<104, 105>>}
Limits == {1, 2}

responseOk == [statusCode |-> 200, body |-> ""]
responseForbidden == [statusCode |-> 403, body |-> ""]
responseDefault == [statusCode |-> 500, body |-> ""]
\* The promise returned by `handle` rejected: the invocation failed.
Rejected == [statusCode |-> 0, body |-> "rejected"]
NoResponse == [statusCode |-> 0, body |-> "pending"]

NoMsg == [messageId |-> 0, createdAt |-> 0, nicknameToNickname |-> << >>,
          message |-> << >>, sender |-> << >>]
NoClients == [c \in ConnIds |-> NoRow]
NoData == [type |-> "none", clients |-> NoClients, message |-> NoMsg, messages |-> << >>]
NoPushes == [c \in ConnIds |-> << >>]

\* The locals of an invocation of `handle`.
Blank ==
  [pc |-> "idle",           \* position in the code
   route |-> "none",        \* event.requestContext.routeKey
   cid |-> 0,               \* event.requestContext.connectionId
   nick |-> NoNickname,     \* nickname / recipientNickname / targetNickname
   text |-> << >>,          \* body.message, until the item is built
   limit |-> 0,             \* body.limit, until the query is issued
   existing |-> Undefined,  \* result of getConnectionIdByNickname
   sender |-> NoRow,        \* nickname of the row getClient returned
   msg |-> NoMsg,           \* the item built by handleSendMessage
   clients |-> NoClients,   \* result of getAllClients
   data |-> NoData,         \* payload of the pushes in flight
   toPush |-> {},           \* postToConnection calls awaiting the transport
   toDelete |-> {},         \* postToConnection calls that got 410, before the delete
   pushes |-> NoPushes,     \* per target, the transport calls resolved, in order
   before |-> NoClients,    \* the Clients table when the event arrived
   wrote |-> {},            \* the writes it made to the Clients table
   thrown |-> "none",       \* the class of the exception thrown, if any
   resp |-> NoResponse]     \* what it returned

VARIABLES
  Clients,    \* Clients table: connectionId -> nickname, or NoRow
  Messages,   \* Messages table: the set of stored items
  conn,       \* API Gateway: the state of each connection
  nextId,     \* number of uuids drawn by v4() so far
  now,        \* the clock read by new Date().getTime()
  inv         \* per slot, the locals of the invocation that runs or ran last in it

vars == <<Clients, Messages, conn, nextId, now, inv>>

Init ==
  /\ Clients = NoClients
  /\ Messages = {}
  /\ conn = [c \in ConnIds |-> "new"]
  /\ nextId = 0
  /\ now = 0
  /\ inv = [h \in Handlers |-> Blank]

\* ---------------------------------------------------------- pure functions
\* String comparison as Array.prototype.sort does it without a comparator:
\* by code units, a proper prefix first.
RECURSIVE StrLess(_, _)
StrLess(a, b) ==
  IF b = << >> THEN FALSE
  ELSE IF a = << >> THEN TRUE
  ELSE IF Head(a) /= Head(b) THEN Head(a) < Head(b)
  ELSE StrLess(Tail(a), Tail(b))

RECURSIVE Insert(_, _)
Insert(x, sorted) ==
  IF sorted = << >> THEN <<x>>
  ELSE IF StrLess(x, Head(sorted)) THEN <<x>> \o sorted
  ELSE <<Head(sorted)>> \o Insert(x, Tail(sorted))

RECURSIVE Sort(_)
Sort(strs) == IF strs = << >> THEN << >> ELSE Insert(Head(strs), Sort(Tail(strs)))

RECURSIVE Join(_, _)
Join(strs, sep) ==
  IF strs = << >> THEN << >>
  ELSE IF Len(strs) = 1 THEN Head(strs)
  ELSE Head(strs) \o sep \o Join(Tail(strs), sep)

\* Mutant: the nicknames are joined as given, unsorted.
getNicknameToNickname_Unsorted(nicknames) == Join(nicknames, <<HashChar>>)

\* Line 266.
getNicknameToNickname(nicknames) == Join(Sort(nicknames), <<HashChar>>)

createClientsMessage(table) ==
  [type |-> "clients", clients |-> table, message |-> NoMsg, messages |-> << >>]

pingMessage == [type |-> "ping", clients |-> NoClients, message |-> NoMsg, messages |-> << >>]
errorMessage == [type |-> "error", clients |-> NoClients, message |-> NoMsg, messages |-> << >>]
messageMessage(m) == [type |-> "message", clients |-> NoClients, message |-> m, messages |-> << >>]
messagesMessage(ms) == [type |-> "messages", clients |-> NoClients, message |-> NoMsg, messages |-> ms]

\* ------------------------------------------------------------ request bodies
\* A JSON value of a body field: a string, a number, or absent.
Str(s) == [type |-> "string", str |-> s, num |-> 0]
Num(n) == [type |-> "number", str |-> << >>, num |-> n]
Absent == [type |-> "undefined", str |-> << >>, num |-> 0]

\* event.body: null, text that is not JSON, the JSON literal null, or an object.
Body(k, m, n, l) == [json |-> k, message |-> m, nickname |-> n, limit |-> l]
SendBodies ==
  {Body("object", Str(t), Str(n), Absent) : t \in Texts, n \in Nicknames}
    \cup {Body("object", Absent, Str(n), Absent) : n \in Nicknames}
    \cup {Body("object", Str(t), Num(1), Absent) : t \in Texts}
    \cup {Body(k, Absent, Absent, Absent) : k \in {"absent", "invalid", "null"}}
GetBodies ==
  {Body("object", Absent, Str(n), Num(l)) : n \in Nicknames, l \in Limits}
    \cup {Body("object", Absent, Str(n), Absent) : n \in Nicknames}
    \cup {Body("object", Absent, Absent, Num(l)) : l \in Limits}
    \cup {Body(k, Absent, Absent, Absent) : k \in {"absent", "invalid", "null"}}

\* The outcome of a parse: the body, or the class of the exception thrown.
parseSendMessageBody(body) ==
  IF body.json = "invalid" THEN "SyntaxError"
  ELSE IF body.json = "null" \/ body.message.type /= "string"
          \/ body.nickname.type /= "string" THEN "HandleError"
  ELSE "ok"

parseGetMessagesBody(body) ==
  IF body.json = "invalid" THEN "SyntaxError"
  ELSE IF body.json = "null" \/ body.nickname.type /= "string"
          \/ body.limit.type /= "number" THEN "HandleError"
  ELSE "ok"

\* ------------------------------------------------------------- the registry
Registered(table) == {c \in ConnIds : table[c] /= NoRow}

\* The items of NicknameIndex under a nickname.
NicknameIndex(n) == {c \in Registered(Clients) : Clients[c] = n}

\* Mutant: the lookup finds nothing.
getConnectionIdByNickname_None(n) == {Undefined}

\* Lines 141-160: the first item of the query, in the index's order, which the
\* table does not fix; undefined when there is none.
getConnectionIdByNickname(n) ==
  IF NicknameIndex(n) = {} THEN {Undefined} ELSE NicknameIndex(n)

\* docClient.put into Clients: keyed by connectionId, it replaces the item.
putClient(c, n) == [Clients EXCEPT ![c] = n]

\* Mutant: the delete is lost.
deleteClient_Noop(c) == Clients

\* docClient.delete from Clients: deleting an absent key changes nothing.
deleteClient(c) == [Clients EXCEPT ![c] = NoRow]

\* What apiGw.postToConnection can answer for a connection: 410 unless the
\* connection is open; any call may fail with another error.
Outcomes(p) == IF conn[p] = "open" THEN {"Delivered", "Error"} ELSE {"Gone", "Error"}

\* ------------------------------------------------------------ control flow
goto(r, p) == [r EXCEPT !.pc = p]
returns(r, response) == [r EXCEPT !.pc = "done", !.resp = response]
throws(r, e) == [r EXCEPT !.pc = "failed", !.resp = Rejected, !.thrown = e]
awaitPush(r, p, targets, payload) ==
  [r EXCEPT !.pc = p, !.toPush = targets, !.data = payload]

\* Slot h goes on with locals r.  API Gateway holds a connection in its
\* handshake while its $connect runs, opens it when $connect returns 200 and
\* refuses it otherwise.
Commit(h, r) ==
  /\ inv' = [inv EXCEPT ![h] = r]
  /\ conn' = IF r.route = "$connect"
             THEN [conn EXCEPT ![r.cid] = IF r.pc \notin {"done", "failed"} THEN "handshake"
                                          ELSE IF r.resp = responseOk THEN "open"
                                          ELSE "closed"]
             ELSE conn

\* A slot is free when its invocation has ended.  What a failed invocation
\* left running (the other pushes of its Promise.all) is dropped when the slot
\* is taken again.
Free(h) == inv[h].pc \in {"idle", "done", "failed"}

\* The transport numbers the connections as they arrive.
Fresh(c) == conn[c] = "new" /\ \A d \in ConnIds : d < c => conn[d] /= "new"

New(rt, c) == [Blank EXCEPT !.route = rt, !.cid = c, !.before = Clients]

\* Sends whose uuid is not drawn yet.
PendingSends == {g \in Handlers : inv[g].route = "sendMessage" /\ inv[g].pc = "getClient"}

\* ------------------------------------------------------------------ handle
\* Lines 65-72: an exception thrown before the handler's promise exists (by
\* the parse of the body) is caught; a HandleError is pushed to the caller as
\* an error event, anything else is rethrown.
catch(r, e) ==
  IF e = "HandleError" THEN awaitPush([r EXCEPT !.thrown = e], "error", {r.cid}, errorMessage)
  ELSE throws(r, e)

\* Lines 38-63, one action per case of the switch on routeKey, each up to the
\* first await of its handler.
\* "$connect", and lines 101-105 of handleConnect: without a nickname, forbidden.
handle_connect(h) ==
  /\ Free(h)
  /\ \E c \in ConnIds, n \in Nicknames \cup {NoNickname} :
       /\ Fresh(c)
       /\ IF n = NoNickname
          THEN Commit(h, returns(New("$connect", c), responseForbidden))
          ELSE Commit(h, [New("$connect", c) EXCEPT !.pc = "query", !.nick = n])
  /\ UNCHANGED <<Clients, Messages, nextId, now>>

\* "$disconnect": sent for a connection that has closed.
handle_disconnect(h) ==
  /\ Free(h)
  /\ \E c \in ConnIds :
       /\ conn[c] = "closed"
       /\ Commit(h, goto(New("$disconnect", c), "delete"))
  /\ UNCHANGED <<Clients, Messages, nextId, now>>

\* "getClients"; like every route below, it comes over an open connection.
handle_getClients(h) ==
  /\ Free(h)
  /\ \E c \in ConnIds :
       /\ conn[c] = "open"
       /\ Commit(h, goto(New("getClients", c), "scan"))
  /\ UNCHANGED <<Clients, Messages, nextId, now>>

\* "sendMessage", with the parse of the body (line 54).
handle_sendMessage(h) ==
  /\ Free(h)
  /\ nextId + Cardinality(PendingSends) < MaxMessages
  /\ \E c \in ConnIds, body \in SendBodies :
       /\ conn[c] = "open"
       /\ LET parsed == parseSendMessageBody(body)
              r == New("sendMessage", c)
          IN IF parsed = "ok"
             THEN Commit(h, [r EXCEPT !.pc = "getClient", !.nick = body.nickname.str,
                                      !.text = body.message.str])
             ELSE Commit(h, catch(r, parsed))
  /\ UNCHANGED <<Clients, Messages, nextId, now>>

\* "getMessages", with the parse of the body (line 56).
handle_getMessages(h) ==
  /\ Free(h)
  /\ \E c \in ConnIds, body \in GetBodies :
       /\ conn[c] = "open"
       /\ LET parsed == parseGetMessagesBody(body)
              r == New("getMessages", c)
          IN IF parsed = "ok"
             THEN Commit(h, [r EXCEPT !.pc = "getClient", !.nick = body.nickname.str,
                                      !.limit = body.limit.num])
             ELSE Commit(h, catch(r, parsed))
  /\ UNCHANGED <<Clients, Messages, nextId, now>>

\* default: any other route.
handle_default(h) ==
  /\ Free(h)
  /\ \E c \in ConnIds :
       /\ conn[c] = "open"
       /\ Commit(h, returns(New("other", c), responseDefault))
  /\ UNCHANGED <<Clients, Messages, nextId, now>>

\* --------------------------------------------------------- postToConnection
\* Mutant: the result of the ping is ignored.
afterPing_Proceed(r, delivered) == goto(r, "put")

\* Lines 107-112: handleConnect after the ping.  The nickname's owner
\* answered: forbidden.  It is gone: go on to the put.
afterPing(r, delivered) ==
  IF delivered THEN returns(r, responseForbidden) ELSE goto(r, "put")

\* Lines 165-169: Promise.all resolves once every push has returned, and the
\* caller returns ok.
afterNotify(r) ==
  IF r.toPush = {} /\ r.toDelete = {} THEN returns(r, responseOk) ELSE r

\* Mutant: handleSendMessage throws when its push was not delivered.
resume_UndeliveredThrows(r, delivered) ==
  CASE r.pc = "ping" -> afterPing(r, delivered)
    [] r.pc = "notify" -> afterNotify(r)
    [] r.pc = "deliver" /\ ~delivered -> throws(r, "HandleError")
    [] r.pc \in {"reply", "deliver", "error"} -> returns(r, responseOk)
    [] OTHER -> r

\* postToConnection gave `delivered` back to its caller, whose code runs on
\* to its next await or to its return: handleConnect, the Promise.all of
\* notifyClients, and the single pushes of handleGetClients (line 215),
\* handleSendMessage (line 251), handleGetMessages (line 297) and the catch of
\* handle (line 68).  A failed invocation has no caller left.
resume(r, delivered) ==
  CASE r.pc = "ping" -> afterPing(r, delivered)
    [] r.pc = "notify" -> afterNotify(r)
    [] r.pc \in {"reply", "deliver", "error"} -> returns(r, responseOk)
    [] OTHER -> r

\* The record of a resolved transport call.
Pushed(r, p, res) ==
  [r EXCEPT !.toPush = @ \ {p},
            !.pushes[p] = Append(@, [data |-> r.data, result |-> res])]

\* Mutant: every error of the transport is taken for a 410.
onError_AnyErrorIsGone(r, p, res) == [r EXCEPT !.toDelete = @ \cup {p}]

\* Mutant: a 410 is rethrown like any other error.
onError_Rethrow(r, p, res) == throws(r, "TransportError")

\* Mutant: an error other than 410 is swallowed, the push reported undelivered.
onError_Swallowed(r, p, res) ==
  IF res = "Gone" THEN [r EXCEPT !.toDelete = @ \cup {p}]
  ELSE resume(r, FALSE)

\* Lines 191-195: the catch of postToConnection.  Status 410 goes on to the
\* delete of p's row; any other error is rethrown.
onError(r, p, res) ==
  IF res = "Gone" THEN [r EXCEPT !.toDelete = @ \cup {p}]
  ELSE throws(r, "TransportError")

\* Lines 182-195: the transport call resolves.
postToConnection(h, p) ==
  /\ p \in inv[h].toPush
  /\ \E res \in Outcomes(p) :
       LET r == Pushed(inv[h], p, res) IN
         Commit(h, IF res = "Delivered" THEN resume(r, TRUE) ELSE onError(r, p, res))
  /\ UNCHANGED <<Clients, Messages, nextId, now>>

\* Mutant: postToConnection returns false after a 410 without the delete.
postToConnectionGone_NoDelete(h, p) ==
  /\ p \in inv[h].toDelete
  /\ Commit(h, resume([inv[h] EXCEPT !.toDelete = @ \ {p}], FALSE))
  /\ UNCHANGED <<Clients, Messages, nextId, now>>

\* Lines 197-204: after a 410, delete the target's row and return false.
postToConnectionGone(h, p) ==
  /\ p \in inv[h].toDelete
  /\ Clients' = deleteClient(p)
  /\ Commit(h, resume([inv[h] EXCEPT !.toDelete = @ \ {p},
                                     !.wrote = @ \cup {[op |-> "delete", id |-> p]}],
                      FALSE))
  /\ UNCHANGED <<Messages, nextId, now>>

\* ------------------------------------------------------------ handleConnect
\* Line 105, and line 109 issuing the ping when the nickname has an owner.
handleConnectQuery(h) ==
  /\ inv[h].pc = "query"
  /\ \E e \in getConnectionIdByNickname(inv[h].nick) :
       LET r == [inv[h] EXCEPT !.existing = e] IN
         Commit(h, IF e = Undefined THEN goto(r, "put")
                   ELSE awaitPush(r, "ping", {e}, pingMessage))
  /\ UNCHANGED <<Clients, Messages, nextId, now>>

\* Mutant: the put is issued again when it has taken long (a retry).
handleConnectPut_Retried(h) ==
  /\ inv[h].route = "$connect" /\ inv[h].pc \in {"put", "scan", "notify"}
  /\ Clients' = putClient(inv[h].cid, inv[h].nick)
  /\ Commit(h, IF inv[h].pc = "put"
               THEN goto([inv[h] EXCEPT !.wrote = @ \cup {[op |-> "put", id |-> inv[h].cid]}],
                         "scan")
               ELSE inv[h])
  /\ UNCHANGED <<Messages, nextId, now>>

\* Lines 114-120: the put of the caller's row.
handleConnectPut(h) ==
  /\ inv[h].pc = "put"
  /\ Clients' = putClient(inv[h].cid, inv[h].nick)
  /\ Commit(h, goto([inv[h] EXCEPT !.wrote = @ \cup {[op |-> "put", id |-> inv[h].cid]}],
                    "scan"))
  /\ UNCHANGED <<Messages, nextId, now>>

\* --------------------------------------------------------- handleDisconnect
\* Mutant: the $disconnect broadcasts without deleting the caller's row.
handleDisconnect_NoDelete(h) ==
  /\ inv[h].pc = "delete"
  /\ Commit(h, goto(inv[h], "scan"))
  /\ UNCHANGED <<Clients, Messages, nextId, now>>

\* Mutant: the $disconnect also deletes the messages its caller sent.
handleDisconnect_DropsHistory(h) ==
  /\ inv[h].pc = "delete"
  /\ Clients' = deleteClient(inv[h].cid)
  /\ Messages' = {m \in Messages : m.sender /= Clients[inv[h].cid]}
  /\ Commit(h, goto([inv[h] EXCEPT !.wrote = @ \cup {[op |-> "delete", id |-> inv[h].cid]}],
                    "scan"))
  /\ UNCHANGED <<nextId, now>>

\* Mutant: the delete is conditional on the row and fails without one.
handleDisconnect_MustExist(h) ==
  /\ inv[h].pc = "delete"
  /\ IF Clients[inv[h].cid] = NoRow
     THEN /\ Commit(h, throws(inv[h], "ConditionalCheckFailed"))
          /\ UNCHANGED Clients
     ELSE /\ Clients' = deleteClient(inv[h].cid)
          /\ Commit(h, goto([inv[h] EXCEPT !.wrote = @ \cup {[op |-> "delete", id |-> inv[h].cid]}],
                            "scan"))
  /\ UNCHANGED <<Messages, nextId, now>>

\* Lines 129-134: the delete of the caller's row.
handleDisconnect(h) ==
  /\ inv[h].pc = "delete"
  /\ Clients' = deleteClient(inv[h].cid)
  /\ Commit(h, goto([inv[h] EXCEPT !.wrote = @ \cup {[op |-> "delete", id |-> inv[h].cid]}],
                    "scan"))
  /\ UNCHANGED <<Messages, nextId, now>>

\* ------------------------------------------- notifyClients, handleGetClients
\* Line 166: the rows notifyClients pushes to.
notifyTargets(table, connectionIdToExclude) ==
  Registered(table) \ {connectionIdToExclude}

\* Lines 163-168 and 211-213: the scan resolves and the caller issues its
\* pushes, all at once: to every scanned row but the excluded one
\* (notifyClients), or to the caller alone (handleGetClients).
getAllClients(h) ==
  /\ inv[h].pc = "scan"
  /\ LET r == [inv[h] EXCEPT !.clients = Clients]
         payload == createClientsMessage(Clients)
     IN IF r.route = "getClients"
        THEN Commit(h, awaitPush(r, "reply", {r.cid}, payload))
        ELSE Commit(h, afterNotify(awaitPush(r, "notify", notifyTargets(Clients, r.cid),
                                             payload)))
  /\ UNCHANGED <<Clients, Messages, nextId, now>>

\* -------------------------------------------------------- handleSendMessage
\* Lines 224-232: the item, with a fresh uuid and the time t of the clock.
newMessage(r, id, t) ==
  [messageId |-> id,
   createdAt |-> t,
   nicknameToNickname |-> getNicknameToNickname(<<r.sender, r.nick>>),
   message |-> r.text,
   sender |-> r.sender]

\* Lines 255-264, then lines 224-232 or line 280: the caller's row is read.
\* With no row `output.Item` is undefined and reading its nickname throws a
\* TypeError inside the handler's promise, past the catch of `handle`.
\* handleSendMessage goes on to build the item; time is counted from the
\* first reading of the clock, which may have advanced since it was last read.
getClient(h) ==
  /\ inv[h].pc = "getClient"
  /\ LET r == [inv[h] EXCEPT !.sender = Clients[inv[h].cid]] IN
       IF r.sender = NoRow
       THEN /\ Commit(h, throws(r, "TypeError"))
            /\ UNCHANGED <<nextId, now>>
       ELSE IF r.route = "sendMessage"
       THEN /\ nextId' = nextId + 1
            /\ \E t \in IF nextId = 0 THEN {0} ELSE {now, now + 1} :
                 /\ now' = t
                 /\ Commit(h, [goto(r, "putMessage") EXCEPT
                                 !.msg = newMessage(r, nextId + 1, t), !.text = << >>])
       ELSE /\ Commit(h, goto(r, "queryMessages"))
            /\ UNCHANGED <<nextId, now>>
  /\ UNCHANGED <<Clients, Messages>>

\* Mutant: the put of the item is lost.
putMessage_Lost(m) == Messages

\* docClient.put into Messages, keyed by messageId.
putMessage(m) == {x \in Messages : x.messageId /= m.messageId} \cup {m}

\* Lines 234-237: the item is put in Messages.
handleSendMessagePut(h) ==
  /\ inv[h].pc = "putMessage"
  /\ Messages' = putMessage(inv[h].msg)
  /\ Commit(h, goto(inv[h], "queryRecipient"))
  /\ UNCHANGED <<Clients, nextId, now>>

\* Lines 239-251: the recipient's connection is looked up and, when there is
\* one, the message is pushed to it.
handleSendMessageQuery(h) ==
  /\ inv[h].pc = "queryRecipient"
  /\ \E e \in getConnectionIdByNickname(inv[h].nick) :
       LET r == [inv[h] EXCEPT !.existing = e] IN
         Commit(h, IF e = Undefined THEN returns(r, responseOk)
                   ELSE awaitPush(r, "deliver", {e}, messageMessage(r.msg)))
  /\ UNCHANGED <<Clients, Messages, nextId, now>>

\* -------------------------------------------------------- handleGetMessages
\* The orders in which a query with ScanIndexForward false can list the items
\* of a set: newest first by createdAt.
DescOrders(items) ==
  {s \in [1..Cardinality(items) -> items] :
     /\ \A i, j \in DOMAIN s : i /= j => s[i] /= s[j]
     /\ \A i, j \in DOMAIN s : i < j => s[i].createdAt >= s[j].createdAt}

Conversation(key) == {m \in Messages : m.nicknameToNickname = key}

Min(a, b) == IF a < b THEN a ELSE b

\* Mutant: the query derives its key from the two nicknames as given.
handleGetMessages_KeyAsGiven(h) ==
  /\ inv[h].pc = "queryMessages"
  /\ LET r == inv[h]
         found == Conversation(Join(<<r.sender, r.nick>>, <<HashChar>>))
     IN \E s \in DescOrders(found) :
          Commit(h, awaitPush([r EXCEPT !.limit = 0], "reply", {r.cid},
                              messagesMessage(SubSeq(s, 1, Min(r.limit, Len(s))))))
  /\ UNCHANGED <<Clients, Messages, nextId, now>>

\* Lines 272-295: the query of NicknameToNicknameIndex, capped at body.limit,
\* and the push of its result to the caller.
handleGetMessages(h) ==
  /\ inv[h].pc = "queryMessages"
  /\ LET r == inv[h]
         found == Conversation(getNicknameToNickname(<<r.sender, r.nick>>))
     IN \E s \in DescOrders(found) :
          Commit(h, awaitPush([r EXCEPT !.limit = 0], "reply", {r.cid},
                              messagesMessage(SubSeq(s, 1, Min(r.limit, Len(s))))))
  /\ UNCHANGED <<Clients, Messages, nextId, now>>

\* ------------------------------------------------------------ the transport
\* A client goes away.  (Its $disconnect event is dispatched by `handle`.)
Close(c) ==
  /\ conn[c] = "open"
  /\ conn' = [conn EXCEPT ![c] = "closed"]
  /\ UNCHANGED <<Clients, Messages, nextId, now, inv>>

\* ---------------------------------------------------------- specifications
\* The steps of a $connect event.
Connecting(h) ==
  \/ handle_connect(h)
  \/ handleConnectQuery(h)
  \/ handleConnectPut(h)
  \/ getAllClients(h)
  \/ \E p \in ConnIds : postToConnection(h, p)
  \/ \E p \in ConnIds : postToConnectionGone(h, p)

\* The steps of a $disconnect event that are its own.
Disconnecting(h) ==
  \/ handle_disconnect(h)
  \/ handleDisconnect(h)

\* The steps of the other events that are their own.
Messaging(h) ==
  \/ handle_getClients(h)
  \/ handle_sendMessage(h)
  \/ handle_getMessages(h)
  \/ handle_default(h)
  \/ getClient(h)
  \/ handleSendMessagePut(h)
  \/ handleSendMessageQuery(h)
  \/ handleGetMessages(h)

\* Invocations run concurrently and interleave at their awaits.
Next ==
  \/ \E h \in Handlers : Connecting(h) \/ Disconnecting(h) \/ Messaging(h)
  \/ \E c \in ConnIds : Close(c)

Spec == Init /\ [][Next]_vars

\* Each event is handled to completion before the next is dispatched.
SeqNext ==
  \/ Connecting(1)
  \/ Disconnecting(1)
  \/ Messaging(1)
  \/ \E c \in ConnIds : Close(c)

SeqSpec == Init /\ [][SeqNext]_vars

\* $connect and $disconnect events alone, handled one at a time.
PresenceNext ==
  \/ Connecting(1)
  \/ Disconnecting(1)
  \/ \E c \in ConnIds : Close(c)

PresenceSpec == Init /\ [][PresenceNext]_vars

\* Concurrent $connect events.
RaceNext ==
  \/ \E h \in Handlers : Connecting(h)
  \/ \E c \in ConnIds : Close(c)

RaceSpec == Init /\ [][RaceNext]_vars

\* The steps of a sendMessage or getMessages event.
Talking(h) ==
  \/ handle_sendMessage(h)
  \/ handle_getMessages(h)
  \/ getClient(h)
  \/ handleSendMessagePut(h)
  \/ handleSendMessageQuery(h)
  \/ handleGetMessages(h)
  \/ \E p \in ConnIds : postToConnection(h, p)
  \/ \E p \in ConnIds : postToConnectionGone(h, p)

\* A $connect event of one of the first LateConn connections: the ids are
\* given out in order, so one of them is left while the last is.
LateArrival(h) == conn[LateConn] = "new" /\ handle_connect(h)

\* $connect and $disconnect events of the first LateConn connections, one at
\* a time, and concurrently with them sendMessage and getMessages events, one
\* at a time.
LateNext ==
  \/ LateArrival(1)
  \/ handleConnectQuery(1)
  \/ handleConnectPut(1)
  \/ getAllClients(1)
  \/ \E p \in ConnIds : postToConnection(1, p)
  \/ \E p \in ConnIds : postToConnectionGone(1, p)
  \/ Disconnecting(1)
  \/ Talking(2)
  \/ \E c \in ConnIds : Close(c)

LateSpec == Init /\ [][LateNext]_vars

\* $connect events of the first LateConn connections and $disconnect events,
\* all running concurrently.
ChurnNext ==
  \/ \E h \in Handlers :
       \/ LateArrival(h)
       \/ handleConnectQuery(h)
       \/ handleConnectPut(h)
       \/ getAllClients(h)
       \/ \E p \in ConnIds : postToConnection(h, p)
       \/ \E p \in ConnIds : postToConnectionGone(h, p)
       \/ Disconnecting(h)
  \/ \E c \in ConnIds : Close(c)

ChurnSpec == Init /\ [][ChurnNext]_vars

\* The nicknames of the rows at the start of the specification of histories:
\* $connect takes any non-empty string as a nickname (line 101).
TakenNicknames == Nicknames \cup {<<97, 35, 97>>}

\* The tables a run of $connect events can leave: the connections that
\* arrived first registered and open, no two under one nickname.
Rosters ==
  {t \in [ConnIds -> TakenNicknames \cup {NoRow}] :
     /\ Registered(t) /= {}
     /\ \A c, d \in Registered(t) : c /= d => t[c] /= t[d]
     /\ \A c \in Registered(t) : \A d \in ConnIds : d < c => d \in Registered(t)}

IsolationInit ==
  /\ Clients \in Rosters
  /\ Messages = {}
  /\ conn = [c \in ConnIds |-> IF Clients[c] /= NoRow THEN "open" ELSE "new"]
  /\ nextId = 0
  /\ now = 0
  /\ inv = [h \in Handlers |-> Blank]

\* sendMessage and getMessages events, one at a time, of connections
\* registered under any nicknames.
IsolationNext ==
  \/ Talking(1)
  \/ \E c \in ConnIds : Close(c)

IsolationSpec == IsolationInit /\ [][IsolationNext]_vars

\* ------------------------------------------------------------------ claims
Returned(r) == r.pc = "done"
Ended(r) == r.pc \in {"done", "failed"}

\* The resolved pushes of r to p of one type, and those with one result.
PushesOfType(r, p, type) == {i \in DOMAIN r.pushes[p] : r.pushes[p][i].data.type = type}
PushesWith(r, p, res) == {i \in DOMAIN r.pushes[p] : r.pushes[p][i].result = res}

\* r is a $connect whose nickname had an owner, and the ping to it got res.
Pinged(r, res) ==
  /\ r.route = "$connect"
  /\ r.existing /= Undefined
  /\ r.pushes[r.existing] /= << >>
  /\ r.pushes[r.existing][1] = [data |-> pingMessage, result |-> res]

\* C1: with the events handled one at a time, the Clients table never holds
\* two rows with the same nickname.
C1_UniqueNicknames ==
  \A c, d \in Registered(Clients) : c /= d => Clients[c] /= Clients[d]

\* C1 witness: a $connect took over the nickname of a dead owner while
\* another connection is registered.
C1_Witness ==
  \E h \in Handlers :
    /\ Returned(inv[h]) /\ Pinged(inv[h], "Gone")
    /\ Clients[inv[h].cid] = inv[h].nick
    /\ Cardinality(Registered(Clients)) >= 2

\* C2: of two $connect events with different connection ids that found the
\* same nickname free, at most one ends registered under it; the other is
\* refused, so the table never holds both rows.
C2_ClaimIsAtomic ==
  \A h, g \in Handlers :
    ( /\ h /= g
      /\ inv[h].route = "$connect" /\ inv[g].route = "$connect"
      /\ Ended(inv[h]) /\ Ended(inv[g])
      /\ inv[h].cid /= inv[g].cid
      /\ inv[h].nick = inv[g].nick /\ inv[h].nick /= NoNickname
      /\ inv[h].existing = Undefined /\ inv[g].existing = Undefined
      /\ inv[h].before[inv[g].cid] = NoRow /\ inv[g].before[inv[h].cid] = NoRow )
    => ~ ( /\ Clients[inv[h].cid] = inv[h].nick
           /\ Clients[inv[g].cid] = inv[g].nick
           /\ inv[h].resp = responseOk /\ inv[g].resp = responseOk )

\* C3: a $connect whose nickname's owner answered the ping with Gone, once it
\* has returned: the response is ok, the owner's row is gone and the new
\* connection is registered under the nickname.
C3_StaleOwnerEvicted ==
  \A h \in Handlers :
    (Returned(inv[h]) /\ Pinged(inv[h], "Gone"))
    => /\ inv[h].resp = responseOk
       /\ Clients[inv[h].existing] = NoRow
       /\ Clients[inv[h].cid] = inv[h].nick
       /\ inv[h].before[inv[h].existing] = inv[h].nick

\* C3 witness: such a $connect has returned.
C3_Witness ==
  \E h \in Handlers :
    /\ Returned(inv[h]) /\ Pinged(inv[h], "Gone")
    /\ inv[h].resp = responseOk
    /\ inv[h].before[inv[h].existing] = inv[h].nick
    /\ Clients[inv[h].existing] = NoRow

\* C4: a $connect whose nickname's owner received the ping ends with the
\* forbidden response, has left the Clients table as it was and has pushed
\* nothing but the ping: no roster.
C4_LiveOwnerRejects ==
  \A h \in Handlers :
    (Ended(inv[h]) /\ Pinged(inv[h], "Delivered"))
    => /\ Returned(inv[h])
       /\ inv[h].resp = responseForbidden
       /\ Clients = inv[h].before
       /\ inv[h].wrote = {}
       /\ Clients[inv[h].cid] = NoRow
       /\ Clients[inv[h].existing] = inv[h].nick
       /\ \A p \in ConnIds : PushesOfType(inv[h], p, "clients") = {}
       /\ \A p \in ConnIds \ {inv[h].existing} : inv[h].pushes[p] = << >>
       /\ Len(inv[h].pushes[inv[h].existing]) = 1

\* C4 witness: a $connect was refused because the owner is live, while a
\* third connection is registered and got no roster.
C4_Witness ==
  \E h \in Handlers :
    /\ Returned(inv[h]) /\ Pinged(inv[h], "Delivered")
    /\ inv[h].resp = responseForbidden
    /\ Cardinality(Registered(Clients)) >= 2

\* What a roster broadcast of r has to push to: the rows of its scan but its own.
Peers(r) == notifyTargets(r.clients, r.cid)

\* r pushed to p exactly once, the roster it scanned.
RosterPushedOnce(r, p) ==
  /\ Len(r.pushes[p]) = 1
  /\ r.pushes[p][1].data = createClientsMessage(r.clients)

\* C5, as stated: a $disconnect of X that has returned removed X's row and no
\* other (every other row is as it was before the event), and pushed exactly
\* one roster to each connection still registered and none to X.
C5_RemovesExactlyOneRow ==
  \A h \in Handlers :
    (inv[h].route = "$disconnect" /\ Returned(inv[h]))
    => LET r == inv[h] IN
       /\ Clients[r.cid] = NoRow
       /\ \A p \in ConnIds \ {r.cid} : Clients[p] = r.before[p]
       /\ \A p \in Registered(r.before) \ {r.cid} : RosterPushedOnce(r, p)
       /\ r.pushes[r.cid] = << >>

\* C5, amended: a $disconnect of X that has returned removed X's row and,
\* besides, exactly the rows of the peers whose roster push returned Gone;
\* it pushed exactly one roster, the table without X, to each connection that
\* was registered besides X, and nothing to X or to anyone else.
C5_DisconnectFrame ==
  \A h \in Handlers :
    (inv[h].route = "$disconnect" /\ Returned(inv[h]))
    => LET r == inv[h] IN
       /\ inv[h].resp = responseOk
       /\ Clients[r.cid] = NoRow
       /\ \A p \in ConnIds \ {r.cid} :
            Clients[p] = IF PushesWith(r, p, "Gone") /= {} THEN NoRow ELSE r.before[p]
       /\ r.wrote = {[op |-> "delete", id |-> r.cid]}
                      \cup {[op |-> "delete", id |-> p] : p \in {q \in ConnIds : PushesWith(r, q, "Gone") /= {}}}
       /\ r.clients = [r.before EXCEPT ![r.cid] = NoRow]
       /\ \A p \in Registered(r.before) \ {r.cid} : RosterPushedOnce(r, p)
       /\ \A p \in ConnIds \ (Registered(r.before) \ {r.cid}) : r.pushes[p] = << >>

\* C5 witness: a $disconnect of a registered X has returned with one peer
\* that received the roster and one whose push returned Gone.
C5_Witness ==
  \E h \in Handlers :
    /\ inv[h].route = "$disconnect" /\ Returned(inv[h])
    /\ inv[h].before[inv[h].cid] /= NoRow
    /\ \E p, q \in ConnIds :
         /\ PushesWith(inv[h], p, "Delivered") /= {}
         /\ PushesWith(inv[h], q, "Gone") /= {}

\* C6: once a push of an invocation to C has returned Gone and
\* postToConnection has returned, C has no row, so no lookup by nickname
\* returns C; and the invocation issues no other push to C after it: a Gone
\* is the last push to C, with none in flight.
C6_GoneIsEvicted ==
  \A h \in Handlers : \A c \in ConnIds :
    PushesWith(inv[h], c, "Gone") /= {}
    => /\ PushesWith(inv[h], c, "Gone") = {Len(inv[h].pushes[c])}
       /\ c \notin inv[h].toPush
       /\ (c \in inv[h].toDelete) => ~Returned(inv[h])
       /\ (c \notin inv[h].toDelete) =>
            /\ Clients[c] = NoRow
            /\ \A n \in Nicknames : c \notin getConnectionIdByNickname(n)
            /\ [op |-> "delete", id |-> c] \in inv[h].wrote

\* C6 witness: a $connect evicted the dead owner of its nickname and went on
\* to push the roster to another peer.
C6_Witness ==
  \E h \in Handlers :
    /\ Returned(inv[h]) /\ Pinged(inv[h], "Gone")
    /\ inv[h].before[inv[h].existing] /= NoRow
    /\ Clients[inv[h].existing] = NoRow
    /\ \E p \in ConnIds : PushesOfType(inv[h], p, "clients") /= {}

\* C7: a row of the Clients table goes away or changes only in the delete of
\* the $disconnect of its connection, or in the delete that follows a push to
\* its connection that returned Gone.
C7_OnlyDisconnectOrGone ==
  [][\A c \in ConnIds :
       (Clients[c] /= NoRow /\ Clients'[c] /= Clients[c])
       => \E h \in Handlers :
            \/ handleDisconnect(h) /\ inv[h].route = "$disconnect" /\ inv[h].cid = c
            \/ /\ postToConnectionGone(h, c)
               /\ inv[h].pushes[c] /= << >>
               /\ inv[h].pushes[c][Len(inv[h].pushes[c])].result = "Gone"]_vars

\* C7 witness: a push to a registered connection failed with another error
\* than Gone, and the row is still there.
C7_Witness ==
  \E h \in Handlers : \E c \in ConnIds :
    /\ PushesWith(inv[h], c, "Error") /= {}
    /\ inv[h].thrown = "TransportError"
    /\ Clients[c] /= NoRow
    /\ Clients[c] = inv[h].before[c]

\* r ran a roster broadcast: it is a $connect or $disconnect whose scan resolved.
Broadcast(r) ==
  /\ r.route \in {"$connect", "$disconnect"}
  /\ r.data.type = "clients"

\* C8: in a roster broadcast a push that returns Gone fails nothing.  The
\* peer is evicted; every peer of the scan gets its one roster push; and the
\* event returns ok -- it fails only if a push failed with another error.
C8_GoneDoesNotAbort ==
  \A h \in Handlers :
    Broadcast(inv[h])
    => LET r == inv[h] IN
       /\ \A p \in ConnIds \ Peers(r) : PushesOfType(r, p, "clients") = {}
       /\ \A p \in Peers(r) :
            /\ Cardinality(PushesOfType(r, p, "clients")) + (IF p \in r.toPush THEN 1 ELSE 0) = 1
            /\ (PushesWith(r, p, "Gone") /= {} /\ p \notin r.toDelete) => Clients[p] = NoRow
       /\ r.pc = "failed" => \E p \in Peers(r) : PushesWith(r, p, "Error") /= {}
       /\ (r.pc = "notify" /\ r.toPush = {} /\ r.toDelete = {}) => FALSE
       /\ Returned(r) =>
            /\ r.resp = responseOk
            /\ \A p \in Peers(r) : RosterPushedOnce(r, p)

\* C8 witness: a broadcast has returned ok after one peer's push returned
\* Gone and another peer received the roster.
C8_Witness ==
  \E h \in Handlers :
    /\ Broadcast(inv[h]) /\ Returned(inv[h]) /\ inv[h].resp = responseOk
    /\ \E p, q \in Peers(inv[h]) :
         /\ PushesWith(inv[h], p, "Gone") /= {} /\ Clients[p] = NoRow
         /\ PushesWith(inv[h], q, "Delivered") /= {}

\* C9: a sendMessage of a registered connection whose recipient nickname had
\* no row ends by returning ok, with its item in the Messages table and
\* without any push.
C9_AbsentRecipient ==
  \A h \in Handlers :
    ( /\ inv[h].route = "sendMessage" /\ Ended(inv[h])
      /\ inv[h].sender /= NoRow
      /\ inv[h].existing = Undefined )
    => /\ Returned(inv[h])
       /\ inv[h].resp = responseOk
       /\ inv[h].msg \in Messages
       /\ inv[h].msg.message \in Texts
       /\ \A p \in ConnIds : inv[h].pushes[p] = << >>

\* C9 witness: such a sendMessage has returned, and its recipient has no row.
C9_Witness ==
  \E h \in Handlers :
    /\ inv[h].route = "sendMessage" /\ Returned(inv[h])
    /\ inv[h].sender /= NoRow /\ inv[h].existing = Undefined
    /\ NicknameIndex(inv[h].nick) = {}
    /\ inv[h].msg \in Messages

\* The conversation key of two nicknames: the smaller, '#', the larger.
SortedPairKey(a, b) ==
  IF StrLess(b, a) THEN b \o <<HashChar>> \o a ELSE a \o <<HashChar>> \o b

\* C10: a sendMessage of registered sender A to nickname B, whose connection
\* is registered and receives the push, has stored exactly one item, with
\* sender A and the two nicknames sorted and joined with '#' as its key, and
\* B's connection got exactly one push: a `message` carrying that item.
C10_DeliveredMessage ==
  \A h \in Handlers :
    ( /\ inv[h].route = "sendMessage" /\ Ended(inv[h])
      /\ inv[h].existing /= Undefined
      /\ PushesWith(inv[h], inv[h].existing, "Delivered") /= {} )
    => LET r == inv[h] IN
       /\ Returned(r) /\ r.resp = responseOk
       /\ r.sender = Clients[r.cid] /\ r.sender \in Nicknames
       /\ Clients[r.existing] = r.nick
       /\ {m \in Messages : m.messageId = r.msg.messageId} = {r.msg}
       /\ Cardinality(Messages) = nextId
       /\ r.msg.sender = r.sender
       /\ r.msg.nicknameToNickname = SortedPairKey(r.sender, r.nick)
       /\ r.pushes[r.existing] = <<[data |-> messageMessage(r.msg), result |-> "Delivered"]>>
       /\ \A p \in ConnIds \ {r.existing} : r.pushes[p] = << >>

\* C10 witness: a message from the larger nickname to the smaller one has
\* been stored and delivered to another connection.
C10_Witness ==
  \E h \in Handlers :
    /\ inv[h].route = "sendMessage" /\ Returned(inv[h])
    /\ inv[h].existing /= Undefined /\ inv[h].existing /= inv[h].cid
    /\ PushesWith(inv[h], inv[h].existing, "Delivered") /= {}
    /\ StrLess(inv[h].nick, inv[h].sender)
    /\ inv[h].msg \in Messages

\* The messages a getMessages that returned has pushed to its caller.
Listed(r) == r.pushes[r.cid][1].data.messages

\* r is a getMessages whose query ran and whose reply was delivered.
History(r) == r.route = "getMessages" /\ Returned(r) /\ r.data.type = "messages"

\* The stored messages between nicknames x and y: sent by one of them, under
\* the key of the pair.
Exchanged(x, y) ==
  {m \in Messages : m.sender \in {x, y} /\ m.nicknameToNickname = SortedPairKey(x, y)}

\* C11: a history query by the connection of X with target Y returns every
\* stored message between X and Y, whichever of the two sent it: the query
\* by A with target B and the query by B with target A both return a message
\* sent from A to B.  (A message is left out only by the query's Limit, which
\* keeps the newest.)
C11_KeySymmetry ==
  \A h \in Handlers :
    History(inv[h])
    => LET r == inv[h] IN
       \A m \in Exchanged(r.sender, r.nick) :
         \/ \E i \in DOMAIN Listed(r) : Listed(r)[i] = m
         \/ /\ Listed(r) /= << >>
            /\ \A i \in DOMAIN Listed(r) : Listed(r)[i].createdAt >= m.createdAt

\* C11 witness: the recipient of a message queried the history with the
\* sender as target, the sender's nickname sorting after its own, and got it.
C11_Witness ==
  \E h \in Handlers :
    /\ History(inv[h])
    /\ inv[h].sender /= inv[h].nick
    /\ StrLess(inv[h].sender, inv[h].nick)
    /\ \E i \in DOMAIN Listed(inv[h]) :
         /\ Listed(inv[h])[i].sender = inv[h].nick
         /\ Listed(inv[h])[i] \in Messages

\* C12: a sendMessage of a registered connection that has stored its item
\* and returned has pushed that item to the sender's own connection as a
\* `message` event, whether or not the recipient has a connection.
C12_SenderConfirmed ==
  \A h \in Handlers :
    ( /\ inv[h].route = "sendMessage" /\ Returned(inv[h])
      /\ inv[h].sender /= NoRow
      /\ inv[h].msg \in Messages )
    => \E i \in DOMAIN inv[h].pushes[inv[h].cid] :
         inv[h].pushes[inv[h].cid][i].data = messageMessage(inv[h].msg)

\* C13: a sendMessage or getMessages with a well-formed body, arriving on a
\* connection that has no row in the Clients table, is answered with an
\* `error` event to that connection and the ok response; the invocation does
\* not fail, and a sendMessage stores nothing.
C13_UnregisteredGetsError ==
  \A h \in Handlers :
    ( /\ inv[h].route \in {"sendMessage", "getMessages"}
      /\ Ended(inv[h])
      /\ inv[h].nick /= NoNickname
      /\ inv[h].sender = NoRow )
    => /\ Returned(inv[h])
       /\ inv[h].resp = responseOk
       /\ PushesOfType(inv[h], inv[h].cid, "error") /= {}
       /\ inv[h].msg = NoMsg

\* r is a sendMessage or getMessages whose body did not parse.
Malformed(r) ==
  /\ r.route \in {"sendMessage", "getMessages"}
  /\ r.thrown \in {"HandleError", "SyntaxError"} \/ r.data.type = "error"

\* C14: a sendMessage or getMessages whose body is malformed ends with an
\* `error` event pushed to its connection and the ok response, the Clients
\* and Messages tables left as they were.  (A push that fails with a
\* transport error other than Gone is left aside: it fails the event.)
C14_MalformedGetsError ==
  \A h \in Handlers :
    ( /\ Malformed(inv[h]) /\ Ended(inv[h])
      /\ \A p \in ConnIds : PushesWith(inv[h], p, "Error") = {} )
    => /\ Returned(inv[h])
       /\ inv[h].resp = responseOk
       /\ PushesOfType(inv[h], inv[h].cid, "error") /= {}
       /\ Clients = inv[h].before
       /\ inv[h].msg = NoMsg

\* C15: a push to p that failed with an error other than 410 deletes
\* nothing -- p's row is as it was when the event arrived -- and its
\* invocation fails: it returns neither ok nor forbidden.
C15_FaultPropagates ==
  \A h \in Handlers : \A p \in ConnIds :
    PushesWith(inv[h], p, "Error") /= {}
    => /\ inv[h].pc = "failed"
       /\ inv[h].resp = Rejected
       /\ inv[h].thrown = "TransportError"
       /\ p \notin inv[h].toDelete
       /\ [op |-> "delete", id |-> p] \notin inv[h].wrote
       /\ Clients[p] = inv[h].before[p]

\* C15 witness: the push of a stored message to its registered recipient
\* failed with such an error; the sendMessage failed and the row is there.
C15_Witness ==
  \E h \in Handlers :
    /\ inv[h].route = "sendMessage" /\ inv[h].pc = "failed"
    /\ inv[h].msg \in Messages
    /\ inv[h].existing /= Undefined
    /\ PushesWith(inv[h], inv[h].existing, "Error") /= {}
    /\ Clients[inv[h].existing] = inv[h].nick

\* C16: a sendMessage whose recipient nickname had a row, and whose push to
\* that connection returned Gone, ends by returning ok with its item in the
\* Messages table and the recipient's row removed, and it pushed no `error`
\* event; the item is in the table from before the push is issued.
C16_GoneRecipient ==
  \A h \in Handlers :
    inv[h].route = "sendMessage"
    => LET r == inv[h] IN
       /\ (r.data.type = "message") => r.msg \in Messages
       /\ ( /\ Ended(r)
            /\ r.existing /= Undefined
            /\ PushesWith(r, r.existing, "Gone") /= {} )
          => /\ Returned(r) /\ r.resp = responseOk
             /\ r.thrown = "none"
             /\ r.msg \in Messages
             /\ r.before[r.existing] = r.nick
             /\ Clients[r.existing] = NoRow
             /\ r.pushes[r.existing] = <<[data |-> messageMessage(r.msg), result |-> "Gone"]>>
             /\ \A p \in ConnIds : PushesOfType(r, p, "error") = {}

\* C16 witness: a message for a registered recipient whose connection has
\* gone was stored; the push returned Gone, the row was removed, ok returned.
C16_Witness ==
  \E h \in Handlers :
    /\ inv[h].route = "sendMessage" /\ Returned(inv[h])
    /\ inv[h].existing /= Undefined /\ inv[h].existing /= inv[h].cid
    /\ PushesWith(inv[h], inv[h].existing, "Gone") /= {}
    /\ inv[h].before[inv[h].existing] /= NoRow
    /\ Clients[inv[h].existing] = NoRow
    /\ inv[h].msg \in Messages

C18_DisconnectedIsTerminal ==
  /\ \A c \in ConnIds :
       [](Clients[c] /= NoRow => [](Clients[c] = NoRow => [](Clients[c] = NoRow)))
  /\ [][\A c \in ConnIds :
          Clients[c] /= NoRow => Clients'[c] \in {Clients[c], NoRow}]_vars

\* C18 witness: the row of a connection was removed by the Gone cleanup of
\* another connection's push while the $disconnect of the connection was in
\* flight, its own delete already done.
C18_Witness ==
  \E h, g \in Handlers :
    /\ h /= g
    /\ inv[h].route = "$disconnect"
    /\ inv[h].before[inv[h].cid] /= NoRow
    /\ [op |-> "delete", id |-> inv[h].cid] \in inv[h].wrote
    /\ [op |-> "delete", id |-> inv[h].cid] \in inv[g].wrote
    /\ Clients[inv[h].cid] = NoRow

\* C19: a $disconnect of a connection that has no row is no error.  Its
\* delete changes nothing; it returns ok (it fails only if a push of its
\* broadcast fails with a transport error other than Gone); and it leaves the
\* Clients table as it was, but for the rows of the peers whose roster push
\* returned Gone.
C19_DisconnectIdempotent ==
  \A h \in Handlers :
    (inv[h].route = "$disconnect" /\ inv[h].before[inv[h].cid] = NoRow)
    => LET r == inv[h] IN
       /\ r.pc = "scan" => Clients = r.before
       /\ r.thrown \in {"none", "TransportError"}
       /\ r.pc = "failed" => \E p \in ConnIds : PushesWith(r, p, "Error") /= {}
       /\ Returned(r)
          => /\ r.resp = responseOk
             /\ r.clients = r.before
             /\ \A p \in ConnIds :
                  Clients[p] = IF PushesWith(r, p, "Gone") /= {} THEN NoRow ELSE r.before[p]

\* C19 witness: a $disconnect of a connection without a row has returned ok
\* after pushing the roster to a registered peer, whose row is still there.
C19_Witness ==
  \E h \in Handlers :
    /\ inv[h].route = "$disconnect" /\ Returned(inv[h])
    /\ inv[h].before[inv[h].cid] = NoRow
    /\ inv[h].resp = responseOk
    /\ \E p \in ConnIds :
         /\ PushesWith(inv[h], p, "Delivered") /= {}
         /\ Clients[p] /= NoRow

\* C20: two different pairs of nicknames never have the same conversation
\* key, so a history query by the connection of A with target B returns
\* only messages between A and B: every message it lists was sent by A or
\* by B.
C20_ConversationIsolation ==
  \A h \in Handlers :
    History(inv[h])
    => \A i \in DOMAIN Listed(inv[h]) :
         Listed(inv[h])[i].sender \in {inv[h].sender, inv[h].nick}

====
